---------------------------- MODULE Spec2Model ----------------------------
(***************************************************************************)
(* A model of python_bridge/inference_worker.py: the query relaxation step *)
(* and the two external lookup loops built on it, the opinion graph and    *)
(* its context sharding, and the worker's main loop (query_memory,         *)
(* research, get_facts, generate) over the vector store.                   *)
(*                                                                         *)
(* Text is modelled as a sequence of one-character strings, so that the    *)
(* regular expressions, the whitespace split and the slices of the source  *)
(* are computed character by character.                                    *)
(***************************************************************************)
EXTENDS Integers, Sequences, FiniteSets, TLC

(***************************************************************************)
(* Characters                                                              *)
(***************************************************************************)
UpperS == <<"A","B","C","D","E","F","G","H","I","J","K","L","M",
            "N","O","P","Q","R","S","T","U","V","W","X","Y","Z">>

LowerS == <<"a","b","c","d","e","f","g","h","i","j","k","l","m",
            "n","o","p","q","r","s","t","u","v","w","x","y","z">>

Digits == {"0","1","2","3","4","5","6","7","8","9"}

Range(f) == { f[i] : i \in DOMAIN f }

\* str.lower() / re.IGNORECASE on one (ASCII) character
LowerChar(c) ==
    IF c \in Range(UpperS)
    THEN LowerS[CHOOSE i \in DOMAIN UpperS : UpperS[i] = c]
    ELSE c

\* str.lower()
Lower(s) == [ i \in DOMAIN s |-> LowerChar(s[i]) ]

\* \d
IsDigit(c) == c \in Digits

\* \w : the characters on either side of which \b does not hold
IsWordChar(c) == c \in Digits \cup Range(UpperS) \cup Range(LowerS) \cup {"_"}

\* the characters str.split() splits on
IsSpace(c) == c \in {" ", "\t", "\n", "\r"}

\* \b just before position i of s (1-based; i = Len(s)+1 is the end)
WordBoundary(s, i) ==
    LET before == i > 1 /\ IsWordChar(s[i-1])
        after  == i <= Len(s) /\ IsWordChar(s[i])
    IN  before # after

\* the literal w (given in lower case) matches s at position i, ignoring case
LitAt(w, s, i) ==
    /\ i + Len(w) - 1 <= Len(s)
    /\ \A k \in 1..Len(w) : LowerChar(s[i + k - 1]) = w[k]

\* the first position >= i of s that holds no digit (Len(s)+1 if none): \d+ is greedy
RECURSIVE DigitsEnd(_, _)
DigitsEnd(s, i) ==
    IF i <= Len(s) /\ IsDigit(s[i]) THEN DigitsEnd(s, i + 1) ELSE i

\* the length of the first word of ws that matches s at i and satisfies ok, else 0
RECURSIVE FirstAlt(_, _, _, _, _)
FirstAlt(ws, k, s, i, needBoundary) ==
    IF k > Len(ws) THEN 0
    ELSE IF /\ LitAt(ws[k], s, i)
            /\ (needBoundary => WordBoundary(s, i + Len(ws[k])))
         THEN Len(ws[k])
         ELSE FirstAlt(ws, k + 1, s, i, needBoundary)

Units == << <<"m","l">>, <<"g">>, <<"k","g">>, <<"l">>, <<"o","z">> >>

\* r'\b\d+(ml|g|kg|L|oz)\b' at position i: the length of the match, 0 if none
MatchUnit(s, i) ==
    IF ~(IsDigit(s[i]) /\ WordBoundary(s, i)) THEN 0
    ELSE LET j == DigitsEnd(s, i)
             u == FirstAlt(Units, 1, s, j, TRUE)
         IN  IF u = 0 THEN 0 ELSE (j - i) + u

PackOf == <<"p","a","c","k"," ","o","f"," ">>

Fluff == << <<"o","f","f","i","c","i","a","l">>, <<"r","e","v","i","e","w">> >>

\* the first position > i of s holding ")" with no newline before it, else 0: \(.*?\)
RECURSIVE CloseParen(_, _)
CloseParen(s, i) ==
    IF i > Len(s) \/ s[i] = "\n" THEN 0
    ELSE IF s[i] = ")" THEN i
    ELSE CloseParen(s, i + 1)

\* r'\(.*?\)|pack of \d+|official|review' at position i
MatchFluff(s, i) ==
    IF s[i] = "(" /\ CloseParen(s, i + 1) # 0 THEN CloseParen(s, i + 1) - i + 1
    ELSE IF LitAt(PackOf, s, i) /\ DigitsEnd(s, i + Len(PackOf)) > i + Len(PackOf)
         THEN DigitsEnd(s, i + Len(PackOf)) - i
    ELSE FirstAlt(Fluff, 1, s, i, FALSE)

StopWords == << <<"f","o","r">>, <<"w","i","t","h">>, <<"a","n","d">>,
                <<"f","l","a","v","o","r">>, <<"f","l","a","v","o","u","r">>,
                <<"v","a","r","i","a","n","t">> >>

\* r'\b(for|with|and|flavor|flavour|variant)\b' at position i
MatchStop(s, i) ==
    IF ~WordBoundary(s, i) THEN 0 ELSE FirstAlt(StopWords, 1, s, i, TRUE)

\* r'\(.*?\)|pack of \d+' at position i (the copy of test_robustness.py)
MatchFluffTest(s, i) ==
    IF s[i] = "(" /\ CloseParen(s, i + 1) # 0 THEN CloseParen(s, i + 1) - i + 1
    ELSE IF LitAt(PackOf, s, i) /\ DigitsEnd(s, i + Len(PackOf)) > i + Len(PackOf)
         THEN DigitsEnd(s, i + Len(PackOf)) - i
    ELSE 0

MatchAt(p, s, i) ==
    CASE p = 1 -> MatchUnit(s, i)
      [] p = 2 -> MatchFluff(s, i)
      [] p = 3 -> MatchStop(s, i)
      [] p = 4 -> MatchFluffTest(s, i)

\* re.sub(pattern p, '', s): leftmost non-overlapping matches removed, from i on
RECURSIVE ReSub(_, _, _)
ReSub(p, s, i) ==
    IF i > Len(s) THEN << >>
    ELSE LET n == MatchAt(p, s, i)
         IN  IF n > 0 THEN ReSub(p, s, i + n)
             ELSE << s[i] >> \o ReSub(p, s, i + 1)

\* str.split(): the maximal runs of non-whitespace characters of s from i on,
\* cur being the run collected so far
RECURSIVE SplitFrom(_, _, _)
SplitFrom(s, i, cur) ==
    IF i > Len(s) THEN (IF cur = << >> THEN << >> ELSE << cur >>)
    ELSE IF IsSpace(s[i])
         THEN (IF cur = << >> THEN << >> ELSE << cur >>) \o SplitFrom(s, i + 1, << >>)
         ELSE SplitFrom(s, i + 1, Append(cur, s[i]))

Split(s) == SplitFrom(s, 1, << >>)

\* " ".join(tokens)
RECURSIVE Join(_)
Join(tokens) ==
    IF tokens = << >> THEN << >>
    ELSE IF Len(tokens) = 1 THEN tokens[1]
    ELSE tokens[1] \o <<" ">> \o Join(Tail(tokens))

\* a relaxation that also folds the case of its result
clean_query_step_lower(query) ==
    LET cleaned == Join(Split(ReSub(3, ReSub(2, ReSub(1, query, 1), 1), 1)))
        tokens  == Split(cleaned)
    IN  Lower(IF cleaned = query /\ Len(tokens) > 1
              THEN Join(SubSeq(tokens, 1, Len(tokens) - 1))
              ELSE cleaned)

\* a relaxation that leaves the measurements in
clean_query_step_keep_units(query) ==
    LET cleaned == Join(Split(ReSub(3, ReSub(2, query, 1), 1)))
        tokens  == Split(cleaned)
    IN  IF cleaned = query /\ Len(tokens) > 1
        THEN Join(SubSeq(tokens, 1, Len(tokens) - 1))
        ELSE cleaned

\* clean_query_step (lines 55-67)
clean_query_step(query) ==
    LET cleaned == Join(Split(ReSub(3, ReSub(2, ReSub(1, query, 1), 1), 1)))
        tokens  == Split(cleaned)
    IN  IF cleaned = query /\ Len(tokens) > 1
        THEN Join(SubSeq(tokens, 1, Len(tokens) - 1))
        ELSE cleaned

\* clean_query_step of test_robustness.py (lines 27-52): the same steps, without
\* "official" and "review" in the second pattern
test_clean_query_step(query) ==
    LET cleaned == Join(Split(ReSub(3, ReSub(4, ReSub(1, query, 1), 1), 1)))
        tokens  == Split(cleaned)
    IN  IF cleaned = query /\ Len(tokens) > 1
        THEN Join(SubSeq(tokens, 1, Len(tokens) - 1))
        ELSE cleaned

(***************************************************************************)
(* The opinion graph (memory_graph, a networkx DiGraph)                    *)
(*                                                                         *)
(* nodes maps each node to its attributes; edges lists the edges in the    *)
(* order in which they were first added, which for a fixed target is the   *)
(* iteration order of predecessors(target).                                *)
(***************************************************************************)
EmptyGraph == [ nodes |-> << >>, edges |-> << >> ]

has_node(G, n) == n \in DOMAIN G.nodes

\* DiGraph.add_node(n, type=tag): the attribute is set, also on an existing node
add_node(G, n, tag) ==
    [ G EXCEPT !.nodes = [ m \in (DOMAIN G.nodes) \cup {n} |->
                             IF m = n THEN tag ELSE G.nodes[m] ] ]

EdgeIndex(G, u, v) ==
    IF \E i \in DOMAIN G.edges : G.edges[i].u = u /\ G.edges[i].v = v
    THEN CHOOSE i \in DOMAIN G.edges : G.edges[i].u = u /\ G.edges[i].v = v
    ELSE 0

\* a graph that keeps every opinion as an edge of its own (a multigraph)
add_edge_multi(G, u, v, relation, weight, content) ==
    [ G EXCEPT !.edges = Append(@, [ u |-> u, v |-> v, relation |-> relation,
                                     weight |-> weight, content |-> content ]) ]

\* DiGraph.add_edge(u, v, **attr): the attributes of an existing edge are
\* updated in place, a new edge is added after the others
add_edge(G, u, v, relation, weight, content) ==
    LET e == [ u |-> u, v |-> v, relation |-> relation,
               weight |-> weight, content |-> content ]
        i == EdgeIndex(G, u, v)
    IN  [ G EXCEPT !.edges = IF i = 0 THEN Append(@, e) ELSE [ @ EXCEPT ![i] = e ] ]

\* predecessors(topic), in iteration order
RECURSIVE PredsFrom(_, _, _)
PredsFrom(G, topic, i) ==
    IF i > Len(G.edges) THEN << >>
    ELSE (IF G.edges[i].v = topic THEN << G.edges[i].u >> ELSE << >>)
         \o PredsFrom(G, topic, i + 1)

predecessors(G, topic) == PredsFrom(G, topic, 1)

get_edge_data(G, u, v) == G.edges[EdgeIndex(G, u, v)]

\* x in s, for strings
Contains(sub, s) ==
    \E i \in 1..(Len(s) - Len(sub) + 1) :
        \A k \in 1..Len(sub) : s[i + k - 1] = sub[k]

\* s[:n]
Prefix(s, n) == SubSeq(s, 1, IF Len(s) < n THEN Len(s) ELSE n)

ContentLen == 120

\* the sentiment of _update_graph_memory
Sentiment(response_text) ==
    LET lower == Lower(response_text)
    IN  IF Contains(<<"l","o","v","e">>, lower) \/ Contains(<<"g","r","e","a","t">>, lower)
        THEN 1
        ELSE IF Contains(<<"h","a","t","e">>, lower) \/ Contains(<<"b","a","d">>, lower)
        THEN -1
        ELSE 0

\* an update that keeps the whole text on the edge
update_graph_memory_uncut(G, agent_name, response_text, topic) ==
    add_edge(add_node(add_node(G, agent_name, "agent"), topic, "topic"),
             agent_name, topic, "has_opinion",
             Sentiment(response_text), response_text)

\* _update_graph_memory (lines 186-196)
update_graph_memory(G, agent_name, response_text, topic) ==
    add_edge(add_node(add_node(G, agent_name, "agent"), topic, "topic"),
             agent_name, topic, "has_opinion",
             Sentiment(response_text), Prefix(response_text, ContentLen))

\* ord(c)
Ord(c) ==
    IF c \in Range(UpperS) THEN 64 + (CHOOSE i \in DOMAIN UpperS : UpperS[i] = c)
    ELSE IF c \in Range(LowerS) THEN 96 + (CHOOSE i \in DOMAIN LowerS : LowerS[i] = c)
    ELSE IF c \in Digits
    THEN 47 + (CHOOSE i \in 1..10 : <<"0","1","2","3","4","5","6","7","8","9">>[i] = c)
    ELSE IF c = " " THEN 32
    ELSE IF c = "_" THEN 95
    ELSE 63

\* sum(ord(c) for c in s)
RECURSIVE SumOrd(_)
SumOrd(s) == IF s = << >> THEN 0 ELSE Ord(Head(s)) + SumOrd(Tail(s))

Max(a, b) == IF a >= b THEN a ELSE b

Min(a, b) == IF a <= b THEN a ELSE b

\* xs[a : b], a Python slice with 0 <= a <= b
Slice(xs, a, b) == SubSeq(xs, a + 1, Min(b, Len(xs)))

NumShards == 3

FeedWindow == 3

\* the opinions of the other agents about topic, in iteration order
RECURSIVE OpinionsOf(_, _, _, _)
OpinionsOf(G, peers, agent_name, topic) ==
    IF peers = << >> THEN << >>
    ELSE (IF Head(peers) = agent_name THEN << >>
          ELSE << [ peer |-> Head(peers),
                    content |-> get_edge_data(G, Head(peers), topic).content ] >>)
         \o OpinionsOf(G, Tail(peers), agent_name, topic)

NoContext == [ header |-> "", lines |-> << >> ]

\* a feed whose window wraps around the end of the list
get_sharded_context_wrapping(G, agent_name, topic) ==
    IF ~has_node(G, topic) THEN NoContext
    ELSE LET all_opinions == OpinionsOf(G, predecessors(G, topic), agent_name, topic)
             n            == Len(all_opinions)
         IN  IF all_opinions = << >> THEN NoContext
             ELSE LET shard_index == SumOrd(agent_name) % NumShards
                      shard_size  == Max(1, n \div 2)
                      start       == (shard_index * shard_size) % n
                  IN  [ header |-> "[WHAT OTHERS ARE SAYING - YOUR FEED]:",
                        lines  |-> [ i \in 1..Min(FeedWindow, n) |->
                                       all_opinions[((start + i - 1) % n) + 1] ] ]

\* a feed that starts at the first opinion for every agent
get_sharded_context_one_shard(G, agent_name, topic) ==
    IF ~has_node(G, topic) THEN NoContext
    ELSE LET all_opinions == OpinionsOf(G, predecessors(G, topic), agent_name, topic)
         IN  IF all_opinions = << >> THEN NoContext
             ELSE [ header |-> "[WHAT OTHERS ARE SAYING - YOUR FEED]:",
                    lines  |-> Slice(all_opinions, 0, FeedWindow) ]

\* a lookup that makes sure the topic is a node before it asks for its predecessors
sharded_context_graph_touch(G, agent_name, topic) == add_node(G, topic, "topic")

\* the graph after a call of get_sharded_context: has_node, predecessors and
\* get_edge_data only read it (lines 153, 158, 161)
sharded_context_graph(G, agent_name, topic) == G

\* a feed that does not leave out the opinion of the agent who asks
get_sharded_context_with_own(G, agent_name, topic) ==
    IF ~has_node(G, topic) THEN NoContext
    ELSE LET all_opinions == OpinionsOf(G, predecessors(G, topic), << "<nobody>" >>, topic)
         IN  IF all_opinions = << >> THEN NoContext
             ELSE LET shard_index == SumOrd(agent_name) % NumShards
                      shard_size  == Max(1, Len(all_opinions) \div 2)
                      start       == (shard_index * shard_size) % Len(all_opinions)
                  IN  [ header |-> "[WHAT OTHERS ARE SAYING - YOUR FEED]:",
                        lines  |-> Slice(all_opinions, start, start + FeedWindow) ]

\* get_sharded_context (lines 151-173)
get_sharded_context(G, agent_name, topic) ==
    IF ~has_node(G, topic) THEN NoContext
    ELSE LET all_opinions == OpinionsOf(G, predecessors(G, topic), agent_name, topic)
         IN  IF all_opinions = << >> THEN NoContext
             ELSE LET shard_index == SumOrd(agent_name) % NumShards
                      shard_size  == Max(1, Len(all_opinions) \div 2)
                      start       == (shard_index * shard_size) % Len(all_opinions)
                  IN  [ header |-> "[WHAT OTHERS ARE SAYING - YOUR FEED]:",
                        lines  |-> Slice(all_opinions, start, start + FeedWindow) ]

(***************************************************************************)
(* Request fields and the metadata parse of the generate task              *)
(***************************************************************************)
\* req.get(field) of a field the request does not carry
None == << "<None>" >>

\* the first position >= i at which sub occurs in s, 0 if none
FindSub(sub, s, i) ==
    LET at == { j \in i..(Len(s) - Len(sub) + 1) :
                  \A k \in 1..Len(sub) : s[j + k - 1] = sub[k] }
    IN  IF at = {} THEN 0 ELSE CHOOSE j \in at : \A m \in at : j <= m

\* s.split(marker)[1], marker occurring in s
SplitSecond(marker, s) ==
    LET start == FindSub(marker, s, 1) + Len(marker)
        next  == FindSub(marker, s, start)
    IN  SubSeq(s, start, IF next = 0 THEN Len(s) ELSE next - 1)

\* s.split(sep)[0]
SplitFirst(sep, s) ==
    LET at == FindSub(sep, s, 1)
    IN  IF at = 0 THEN s ELSE SubSeq(s, 1, at - 1)

\* s.strip()
RECURSIVE Strip(_)
Strip(s) ==
    IF s = << >> THEN s
    ELSE IF IsSpace(s[1]) THEN Strip(Tail(s))
    ELSE IF IsSpace(s[Len(s)]) THEN Strip(SubSeq(s, 1, Len(s) - 1))
    ELSE s

NameMarker == <<"N","a","m","e",":">>

TopicMarker == <<"T","o","p","i","c",":">>

\* the agent / topic named in the prompt, or the default
ParseField(marker, prompt, default) ==
    IF Contains(marker, prompt)
    THEN Strip(SplitFirst(<<"\n">>, SplitSecond(marker, prompt)))
    ELSE default

Unknown == <<"U","n","k","n","o","w","n">>

General == <<"G","e","n","e","r","a","l">>

(***************************************************************************)
(* The vector store (lancedb) and the document ingestion                   *)
(***************************************************************************)
MemoryBank == << "memory_bank" >>

\* knowledge_table = None
NoTable == << "None" >>

\* hashlib.md5(payload).hexdigest(), on the payloads of the model
Md5(payload) ==
    CASE payload = "pdf_A"     -> "0f3a"
      [] payload = "pdf_B"     -> "77c1"
      [] payload = "pdf_empty" -> "d41d"
      [] OTHER                 -> "ffff"

\* f"doc_{pdf_hash}"
DocTable(payload) == << "doc_", Md5(payload) >>

\* the number of words PdfReader extracts from the payload, -1 when it raises
WordsOf(payload) ==
    CASE payload = "pdf_A"     -> 160
      [] payload = "pdf_B"     -> 40
      [] payload = "pdf_empty" -> 0
      [] OTHER                 -> -1

ChunkWords == 200

ChunkStride == 150

\* process_pdf: the windows words[i : i+200] for i in range(0, len(words), 150),
\* each given by the payload and its bounds; [] when the extraction raises
process_pdf(payload) ==
    LET n == WordsOf(payload)
    IN  IF n <= 0 THEN << >>
        ELSE [ k \in 1..((n + ChunkStride - 1) \div ChunkStride) |->
                 << payload, (k - 1) * ChunkStride,
                    Min((k - 1) * ChunkStride + ChunkWords, n) >> ]

\* embed_model.encode(text): the vector of a text, an opaque value
Embed(text) == [ of |-> text ]

\* the rows at the positions of S, in the order of the table
RECURSIVE RowsAt(_, _, _)
RowsAt(rows, S, i) ==
    IF i > Len(rows) THEN << >>
    ELSE (IF i \in S THEN << rows[i] >> ELSE << >>) \o RowsAt(rows, S, i + 1)

\* table.search(q_vec).limit(k): min(k, rows) rows of the table; which rows are
\* the nearest depends on the vectors, so every choice of rows is an outcome
Search(rows, k) ==
    { RowsAt(rows, S, 1) :
        S \in { T \in SUBSET (1..Len(rows)) : Cardinality(T) = Min(k, Len(rows)) } }

SearchLimit == 5

RagLimit == 2

RagChars == 200

MaxResults == 4

\* what the live search can return, in order
WebPool == << [ title |-> "t1", body |-> "b1" ], [ title |-> "t2", body |-> "b2" ],
              [ title |-> "t3", body |-> "b3" ], [ title |-> "t4", body |-> "b4" ] >>

\* f"[LIVE WEB] {hit['title']}: {hit['body']}"
LiveText(hit) == << "[LIVE WEB] ", hit.title, ": ", hit.body >>

\* f"Web Search Failed: {str(e)}"
WebFailed == << "Web Search Failed: ", "error" >>

SeedRows(n) == [ j \in 1..n |-> [ text |-> << "seed", LowerS[j] >>, source |-> "seed",
                                  vector |-> Embed(<< "seed", LowerS[j] >>) ] ]

\* db.create_table(name, data): the table is created, or the call raises when a
\* table of that name exists
CanCreate(tables, name) == name \notin DOMAIN tables

WithTable(tables, name, rows) ==
    [ t \in (DOMAIN tables) \cup {name} |-> IF t = name THEN rows ELSE tables[t] ]

(***************************************************************************)
(* Bounds and input domains                                                *)
(***************************************************************************)
\* the lines written to the worker's stdin in a run of the worker
MaxReq == 2

\* the hits the live search returns at most (never more than max_results)
MaxWebHits == 2

\* the rows of a memory bank found at startup: none, one, more than a search returns
SeedSizes == { 0, 1, SearchLimit + 1 }

Slots == 1..MaxReq

(***************************************************************************)
(* State                                                                   *)
(***************************************************************************)
VARIABLES
    phase,            \* "ready", "exited" (EOF) or "startup_failed"
    boot,             \* the status lines printed by the initialisation
    pending,          \* the lines written to stdin and not read yet
    nread,            \* the lines read so far
    loc,              \* the locals of the handling of each line read
    knowledge_table,  \* the memory bank's handle, NoTable if it was absent
    table_has_len,    \* whether the table type has __len__ (an empty table is falsy)
    db,               \* the tables of the store: name -> rows
    memory_graph,
    computing,        \* the embedding / generation calls in progress
    chunk_embeds,     \* per payload, the completed embedding calls of its chunks
    created,          \* per payload, the tables created for it
    opinion_log       \* per (agent, topic), the texts of its graph updates, oldest first

vars == << phase, boot, pending, nread, loc, knowledge_table, table_has_len, db,
           memory_graph, computing, chunk_embeds, created, opinion_log >>

NoResp == [ status |-> "none", key |-> "", data |-> << >> ]

\* the locals of a handler that has not been entered
Blank ==
    [ pc |-> "unused", running |-> FALSE, task |-> "", resp |-> NoResp,
      query |-> << >>, results |-> << >>, hits |-> << >>, web_hits |-> << >>,
      new_data |-> << >>, live_calls |-> 0, written |-> 0,
      topic |-> << >>, current_q |-> << >>, attempt |-> 0, calls |-> << >>,
      got_data |-> FALSE, voices |-> << >>,
      agent |-> << >>, sharded_ctx |-> NoContext, pdf |-> "", table_name |-> NoTable,
      chunks |-> << >>, rag_ctx |-> << >>, final_text |-> << >>,
      missing |-> FALSE, failed |-> << >>, facts |-> << >>, kind |-> "" ]

Payloads == { "pdf_A", "pdf_B", "pdf_empty" }

\* the state after the initialisation (lines 32-52): the models and the store
\* loaded with the memory bank present or absent, or the start-up failed
InitWith(n) ==
    /\ pending = n
    /\ nread = 0
    /\ loc = [ s \in Slots |-> Blank ]
    /\ memory_graph = EmptyGraph
    /\ computing = 0
    /\ chunk_embeds = [ p \in Payloads |-> 0 ]
    /\ created = [ p \in Payloads |-> 0 ]
    /\ opinion_log = << >>
    /\ table_has_len \in BOOLEAN
    /\ \/ /\ phase = "startup_failed"
          /\ boot = << "loading_models", "error" >>
          /\ knowledge_table = NoTable
          /\ db = << >>
       \/ /\ phase = "ready"
          /\ boot = << "loading_models", "ready" >>
          /\ \E docs \in SUBSET { "pdf_A" } :
                LET old == [ t \in { DocTable(d) : d \in docs } |->
                               [ k \in DOMAIN process_pdf("pdf_A") |->
                                   [ vector |-> Embed(process_pdf("pdf_A")[k]),
                                     text |-> process_pdf("pdf_A")[k] ] ] ]
                IN  \/ /\ knowledge_table = NoTable
                       /\ db = old
                    \/ /\ knowledge_table = MemoryBank
                       /\ \E m \in SeedSizes : db = WithTable(old, MemoryBank, SeedRows(m))

Init == \E n \in 0..MaxReq : InitWith(n)

\* if knowledge_table: the handle is not None and, if the table type has a
\* length, the table is not empty
TableTruthy == /\ knowledge_table # NoTable
               /\ table_has_len => Len(db[knowledge_table]) > 0

Respond(l, status, key, data) ==
    [ l EXCEPT !.pc = "responded", !.running = FALSE,
               !.resp = [ status |-> status, key |-> key, data |-> data ] ]

\* the handler ends without printing anything
NoAnswer(l) == [ l EXCEPT !.pc = "responded", !.running = FALSE ]

\* the except clause of the main loop (lines 338-339)
Raise(l, message) == Respond(l, "error", "message", << message >>)

(***************************************************************************)
(* The main loop: reading a line and routing it (lines 199-212)            *)
(***************************************************************************)
Line(kind, task, query, product, prompt, pdf) ==
    [ kind |-> kind, task |-> task, query |-> query, product |-> product,
      prompt |-> prompt, pdf |-> pdf ]

\* a fallback that runs whatever the store lookup found
NeedsFallbackAlways(results) == TRUE

\* query_memory, up to the store lookup (lines 214-219);
\* if not results (line 232): the live fallback runs
NeedsFallback(results) == results = << >>

AfterLookup(l) ==
    IF NeedsFallback(l.results)
    THEN [ l EXCEPT !.pc = "qm_web" ]
    ELSE Respond(l, "success", "data", l.results)

HandleQueryMemory(line) ==
    LET l == [ Blank EXCEPT !.task = "query_memory",
                            !.query = IF line.query = None THEN << >> ELSE line.query ]
    IN  IF TableTruthy THEN [ l EXCEPT !.pc = "qm_embed" ] ELSE AfterLookup(l)

\* research and get_facts, up to the first attempt (lines 75-78, 125)
HandleLookup(task, q) ==
    [ Blank EXCEPT !.task = task, !.topic = q, !.current_q = q,
                   !.pc = IF task = "research" THEN "rs_call" ELSE "fc_call" ]

\* an ingestion that does not look for the table first
TableMissingAlways(tables, name) == TRUE

\* if table_name not in db.table_names() (line 296)
TableMissing(tables, name) == name \notin DOMAIN tables

\* generate, up to the first compute call (lines 276-298)
HandleGenerate(line) ==
    LET prompt == IF line.prompt = None THEN << >> ELSE line.prompt
        agent  == ParseField(NameMarker, prompt, Unknown)
        topic  == ParseField(TopicMarker, prompt, General)
        l      == [ Blank EXCEPT !.task = "generate", !.query = prompt,
                                 !.agent = agent, !.topic = topic,
                                 !.sharded_ctx = get_sharded_context(memory_graph, agent, topic) ]
    IN  IF line.pdf = "" THEN [ l EXCEPT !.pc = "g_generate" ]
        ELSE LET m == [ l EXCEPT !.pdf = line.pdf, !.table_name = DocTable(line.pdf) ]
             IN  IF TableMissing(db, m.table_name)
                 THEN LET chunks == process_pdf(line.pdf)
                      IN  IF chunks # << >>
                          THEN [ m EXCEPT !.chunks = chunks, !.pc = "g_embed_chunks" ]
                          ELSE [ m EXCEPT !.pc = "g_open" ]
                 ELSE [ m EXCEPT !.pc = "g_open" ]

\* the request lacks the field its task reads: req.get returns None or the default
\* (lines 215, 264, 270, 276)
Omits(line) ==
    /\ line.kind = "json"
    /\ \/ line.task \in { "query_memory", "get_facts" } /\ line.query = None
       \/ line.task = "research" /\ line.product = None
       \/ line.task = "generate" /\ line.prompt = None

\* the branch of the task (lines 205-336)
Route(line) ==
    CASE line.kind = "blank" -> NoAnswer(Blank)
      [] line.kind = "bad" -> Raise(Blank, "JSONDecodeError")
      [] line.kind = "json" /\ line.task = "query_memory" -> HandleQueryMemory(line)
      [] line.kind = "json" /\ line.task = "research" -> HandleLookup("research", line.product)
      [] line.kind = "json" /\ line.task = "get_facts" -> HandleLookup("get_facts", line.query)
      [] line.kind = "json" /\ line.task = "generate" -> HandleGenerate(line)
      [] OTHER -> NoAnswer([ Blank EXCEPT !.task = line.task ])

Handle(line) == [ Route(line) EXCEPT !.missing = Omits(line), !.kind = line.kind ]

\* the opinion graph after the routing: generate calls get_sharded_context (line 287)
HandleGraph(line) ==
    IF line.kind = "json" /\ line.task = "generate"
    THEN LET prompt == IF line.prompt = None THEN << >> ELSE line.prompt
         IN  sharded_context_graph(memory_graph, ParseField(NameMarker, prompt, Unknown),
                                   ParseField(TopicMarker, prompt, General))
    ELSE memory_graph

\* a reader that hands each line to a handler of its own, without waiting
LoopAtTopEager == TRUE

\* the loop is at readline() (line 202): the handling of every earlier line is over
LoopAtTop == \A s \in Slots : loc[s].pc \in { "unused", "responded" }

SlotOf(n) == (n % MaxReq) + 1

\* a loop that reads stdin whatever the outcome of the initialisation
ReadLineAnyPhase(Lines) ==
    /\ LoopAtTop
    /\ pending > 0
    /\ \E line \in Lines :
          /\ loc' = [ s \in Slots |->
                        IF s = SlotOf(nread) THEN Handle(line)
                        ELSE IF loc[s].pc = "responded" THEN Blank ELSE loc[s] ]
          /\ memory_graph' = HandleGraph(line)
    /\ pending' = pending - 1
    /\ nread' = nread + 1
    /\ UNCHANGED << phase, boot, knowledge_table, table_has_len, db,
                    computing, chunk_embeds, created, opinion_log >>

\* line = sys.stdin.readline() and the handling of the line up to its first
\* call (lines 202-336); the loop is entered after a successful initialisation only
ReadLine(Lines) ==
    /\ phase = "ready"
    /\ LoopAtTop
    /\ pending > 0
    /\ \E line \in Lines :
          /\ loc' = [ s \in Slots |->
                        IF s = SlotOf(nread) THEN Handle(line)
                        ELSE IF loc[s].pc = "responded" THEN Blank ELSE loc[s] ]
          /\ memory_graph' = HandleGraph(line)
    /\ pending' = pending - 1
    /\ nread' = nread + 1
    /\ UNCHANGED << phase, boot, knowledge_table, table_has_len, db,
                    computing, chunk_embeds, created, opinion_log >>

\* readline() returns '' (line 203)
ReadEof ==
    /\ phase = "ready"
    /\ LoopAtTop
    /\ pending = 0
    /\ phase' = "exited"
    /\ UNCHANGED << boot, pending, nread, loc, knowledge_table, table_has_len, db,
                    memory_graph, computing, chunk_embeds, created, opinion_log >>

(***************************************************************************)
(* Calls into the embedding / generation capability                        *)
(***************************************************************************)
ComputePoints == { "qm_embed", "qm_hit_embed", "g_embed_chunks", "g_embed_prompt",
                   "g_generate" }

\* a call of embed_model.encode or generate is entered (lines 221, 251, 299, 304, 327-329)
ComputeEnter(s) ==
    /\ loc[s].pc \in ComputePoints
    /\ ~loc[s].running
    /\ loc' = [ loc EXCEPT ![s].running = TRUE ]
    /\ computing' = computing + 1
    /\ UNCHANGED << phase, boot, pending, nread, knowledge_table, table_has_len, db,
                    memory_graph, chunk_embeds, created, opinion_log >>

\* the call at pc returns or raises
Returning(s, pc) == loc[s].pc = pc /\ loc[s].running

(***************************************************************************)
(* query_memory (lines 214-260)                                            *)
(***************************************************************************)
\* [h["text"] for h in hits]
Texts(rows) == [ j \in DOMAIN rows |-> rows[j].text ]

\* the query is embedded and the store searched (lines 221-228)
QmLookup(s, ok) ==
    /\ Returning(s, "qm_embed")
    /\ computing' = computing - 1
    /\ IF ok
       THEN \E hits \in Search(db[knowledge_table], SearchLimit) :
               loc' = [ loc EXCEPT ![s] =
                          AfterLookup([ loc[s] EXCEPT !.running = FALSE, !.hits = hits,
                                          !.results = IF hits # << >> THEN Texts(hits) ELSE @ ]) ]
       ELSE loc' = [ loc EXCEPT ![s] =
                       AfterLookup([ loc[s] EXCEPT !.running = FALSE,
                                                   !.failed = Append(@, "qm_embed") ]) ]
    /\ UNCHANGED << phase, boot, pending, nread, knowledge_table, table_has_len, db,
                    memory_graph, chunk_embeds, created, opinion_log >>

\* the records of the write-back are added (lines 254-255) and the answer printed
QmFinish(l) ==
    IF l.new_data # << >> /\ TableTruthy
    THEN Respond([ l EXCEPT !.written = Len(l.new_data) ], "success", "data", l.results)
    ELSE Respond(l, "success", "data", l.results)

QmStore(l) ==
    IF l.new_data # << >> /\ TableTruthy
    THEN [ db EXCEPT ![knowledge_table] = @ \o l.new_data ]
    ELSE db

\* the hits not yet handled by the loop of line 239, up to the next embedding call
RECURSIVE QmHits(_)
QmHits(l) ==
    IF l.web_hits = << >> THEN [ l EXCEPT !.pc = "qm_add" ]
    ELSE LET m == [ l EXCEPT !.results = Append(@, LiveText(Head(l.web_hits))) ]
         IN  IF TableTruthy THEN [ m EXCEPT !.pc = "qm_hit_embed" ]
             ELSE QmHits([ m EXCEPT !.web_hits = Tail(@) ])

QmAfterHits(s, l) ==
    /\ loc' = [ loc EXCEPT ![s] = IF l.pc = "qm_add" THEN QmFinish(l) ELSE l ]
    /\ db' = IF l.pc = "qm_add" THEN QmStore(l) ELSE db

\* the live search (lines 234-236): it raises, or returns up to max_results hits
QmWeb(s, ok, n) ==
    /\ loc[s].pc = "qm_web"
    /\ IF ok
       THEN QmAfterHits(s, QmHits([ loc[s] EXCEPT !.live_calls = @ + 1,
                                      !.web_hits = SubSeq(WebPool, 1, Min(n, MaxResults)) ]))
       ELSE /\ loc' = [ loc EXCEPT ![s] =
                          Respond([ loc[s] EXCEPT !.live_calls = @ + 1,
                                                  !.results = Append(@, WebFailed) ],
                                  "success", "data", Append(loc[s].results, WebFailed)) ]
            /\ db' = db
    /\ UNCHANGED << phase, boot, pending, nread, knowledge_table, table_has_len,
                    memory_graph, computing, chunk_embeds, created, opinion_log >>

\* the embedding of a live record (line 251) returns or raises
QmHitEmbed(s, ok) ==
    /\ Returning(s, "qm_hit_embed")
    /\ computing' = computing - 1
    /\ LET l    == [ loc[s] EXCEPT !.running = FALSE ]
           text == LiveText(Head(l.web_hits))
           row  == [ text |-> text, source |-> "live_ddg", vector |-> Embed(text) ]
       IN  IF ok
           THEN QmAfterHits(s, QmHits([ l EXCEPT !.new_data = Append(@, row),
                                                 !.web_hits = Tail(@) ]))
           ELSE /\ loc' = [ loc EXCEPT ![s] =
                              Respond([ l EXCEPT !.results = Append(@, WebFailed),
                                                 !.failed = Append(@, "qm_hit_embed") ],
                                      "success", "data", Append(l.results, WebFailed)) ]
                /\ db' = db
    /\ UNCHANGED << phase, boot, pending, nread, knowledge_table, table_has_len,
                    memory_graph, chunk_embeds, created, opinion_log >>

(***************************************************************************)
(* research and get_facts (lines 70-149, 263-272)                          *)
(***************************************************************************)
\* for _ in range(3)
MaxAttempts == 3

MinTitleLen == 15

VoicesCap == 15

LongTitle(c) == [ j \in 1..(MinTitleLen + 1) |-> c ]

\* the titles of the posts of a successful search
PostTitles == { << LongTitle("a") >>, << <<"o","k">> >>,
                << LongTitle("a"), LongTitle("b"), LongTitle("a") >> }

Alert(task) ==
    IF task = "research"
    THEN << "SYSTEM_ALERT: No digital footprint found. The product might be too new or niche." >>
    ELSE << "SYSTEM_ALERT: No structured data found in Open Databases." >>

\* the fact sheet formatted from the first product (lines 134-141)
FactSheet == << "Product: ", "Brand: ", "NutriScore: ", "Ingredients: " >>

\* f"[Context] Brand Background: {wiki_summary}..."
ContextVoice == << "[Context] Brand Background: ", "extract", "..." >>

\* a loop without the fixed-point check
AtFixedPointNever(new_q, current_q) == FALSE

\* if new_q == current_q: break (lines 94, 146)
AtFixedPoint(new_q, current_q) == new_q = current_q

\* the attempts of the loop are used up (range(3), lines 79, 126)
LoopExhausted(attempt) == attempt >= MaxAttempts

\* the end of the retry loop of get_facts: the sentinel is returned (line 149)
LookupOver(l) ==
    IF l.task = "research" THEN [ l EXCEPT !.pc = "rs_wiki" ]
    ELSE Respond(l, "success", "fact_sheet", Alert("get_facts"))

\* the query is relaxed for the next attempt (lines 92-95, 144-147)
LookupRelax(l) ==
    LET new_q == clean_query_step(l.current_q)
    IN  IF AtFixedPoint(new_q, l.current_q) THEN LookupOver(l)
        ELSE LET m == [ l EXCEPT !.current_q = new_q, !.attempt = @ + 1 ]
             IN  IF LoopExhausted(m.attempt) THEN LookupOver(m) ELSE m

\* [title for each post if len(title) > 15]
RECURSIVE LongTitles(_)
LongTitles(titles) ==
    IF titles = << >> THEN << >>
    ELSE (IF Len(Head(titles)) > MinTitleLen THEN << Head(titles) >> ELSE << >>)
         \o LongTitles(Tail(titles))

\* the outcomes of a provider call: data that is read to the end ("found"), a
\* reply without data or with another status ("empty"), data of which an entry
\* lacks a field, so that reading it raises ("malformed"), a transport error or
\* a reply that is not JSON ("raise")
LookupOutcomes == { "found", "empty", "malformed", "raise" }

\* a provider call issued, with its query and its outcome
Call(q, outcome) == [ q |-> q, outcome |-> outcome ]

\* one attempt of the search of research (lines 79-95); a missing product makes
\* quote raise inside the try and clean_query_step raise outside of it
RsAttempt(s, outcome) ==
    /\ loc[s].pc = "rs_call"
    /\ IF loc[s].current_q = None
       THEN loc' = [ loc EXCEPT ![s] = Raise(loc[s], "TypeError") ]
       ELSE LET l == [ loc[s] EXCEPT !.calls = Append(@, Call(loc[s].current_q, outcome)) ]
            IN  CASE outcome = "found" ->
                       \E titles \in PostTitles :
                          loc' = [ loc EXCEPT ![s] =
                                     [ l EXCEPT !.voices = @ \o LongTitles(titles),
                                                !.got_data = TRUE, !.pc = "rs_wiki" ] ]
                  [] outcome = "malformed" ->
                       \E titles \in PostTitles : \E n \in 0..(Len(titles) - 1) :
                          loc' = [ loc EXCEPT ![s] =
                                     LookupRelax([ l EXCEPT !.voices =
                                         @ \o LongTitles(SubSeq(titles, 1, n)) ]) ]
                  [] OTHER -> loc' = [ loc EXCEPT ![s] = LookupRelax(l) ]
    /\ UNCHANGED << phase, boot, pending, nread, knowledge_table, table_has_len, db,
                    memory_graph, computing, chunk_embeds, created, opinion_log >>

\* the orders in which list(set(voices)) can come out
Orders(voices) ==
    { f \in [ 1..Cardinality(Range(voices)) -> Range(voices) ] :
        \A a, b \in DOMAIN f : a # b => f[a] # f[b] }

\* the background lookup and the result of research (lines 98-118); topic.split()[0]
\* raises on a topic without a word
RsWiki(s, extract) ==
    /\ loc[s].pc = "rs_wiki"
    /\ IF Split(loc[s].topic) = << >>
       THEN loc' = [ loc EXCEPT ![s] = Raise(loc[s], "IndexError") ]
       ELSE LET l == [ loc[s] EXCEPT !.voices = IF extract THEN Append(@, ContextVoice) ELSE @ ]
            IN  IF l.voices = << >>
                THEN loc' = [ loc EXCEPT ![s] =
                                Respond(l, "success", "research_data", << Alert("research") >>) ]
                ELSE \E order \in Orders(l.voices) :
                        loc' = [ loc EXCEPT ![s] =
                                   Respond(l, "success", "research_data",
                                           Prefix(order, VoicesCap)) ]
    /\ UNCHANGED << phase, boot, pending, nread, knowledge_table, table_has_len, db,
                    memory_graph, computing, chunk_embeds, created, opinion_log >>

\* one attempt of get_facts (lines 126-147)
FcAttempt(s, outcome) ==
    /\ loc[s].pc = "fc_call"
    /\ IF loc[s].current_q = None
       THEN loc' = [ loc EXCEPT ![s] = Raise(loc[s], "TypeError") ]
       ELSE LET l == [ loc[s] EXCEPT !.calls = Append(@, Call(loc[s].current_q, outcome)) ]
            IN  IF outcome = "found"
                THEN loc' = [ loc EXCEPT ![s] =
                                Respond([ l EXCEPT !.got_data = TRUE ],
                                        "success", "fact_sheet", FactSheet) ]
                ELSE loc' = [ loc EXCEPT ![s] = LookupRelax(l) ]
    /\ UNCHANGED << phase, boot, pending, nread, knowledge_table, table_has_len, db,
                    memory_graph, computing, chunk_embeds, created, opinion_log >>


(***************************************************************************)
(* generate (lines 275-336)                                                *)
(***************************************************************************)
\* the chunks are embedded and the table created (lines 299-301)
GEmbedChunks(s, ok) ==
    /\ Returning(s, "g_embed_chunks")
    /\ computing' = computing - 1
    /\ LET l    == [ loc[s] EXCEPT !.running = FALSE ]
           rows == [ k \in DOMAIN l.chunks |->
                       [ vector |-> Embed(l.chunks[k]), text |-> l.chunks[k] ] ]
       IN  IF ~ok
           THEN /\ loc' = [ loc EXCEPT ![s] =
                              Raise([ l EXCEPT !.failed = Append(@, "g_embed_chunks") ],
                                    "RuntimeError") ]
                /\ UNCHANGED << db, chunk_embeds, created >>
           ELSE /\ chunk_embeds' = [ chunk_embeds EXCEPT ![l.pdf] = @ + 1 ]
                /\ IF CanCreate(db, l.table_name)
                   THEN /\ db' = WithTable(db, l.table_name, rows)
                        /\ created' = [ created EXCEPT ![l.pdf] = @ + 1 ]
                        /\ loc' = [ loc EXCEPT ![s] = [ l EXCEPT !.pc = "g_open" ] ]
                   ELSE /\ loc' = [ loc EXCEPT ![s] = Raise(l, "ValueError") ]
                        /\ UNCHANGED << db, created >>
    /\ UNCHANGED << phase, boot, pending, nread, knowledge_table, table_has_len,
                    memory_graph, opinion_log >>

\* tbl = db.open_table(table_name) (line 303): it raises when there is no such table
GOpen(s) ==
    /\ loc[s].pc = "g_open"
    /\ loc' = [ loc EXCEPT ![s] =
                  IF loc[s].table_name \in DOMAIN db
                  THEN [ loc[s] EXCEPT !.pc = "g_embed_prompt" ]
                  ELSE Raise(loc[s], "FileNotFoundError") ]
    /\ UNCHANGED << phase, boot, pending, nread, knowledge_table, table_has_len, db,
                    memory_graph, computing, chunk_embeds, created, opinion_log >>

\* the prompt is embedded and the two nearest chunks fetched (lines 304-306)
GEmbedPrompt(s, ok) ==
    /\ Returning(s, "g_embed_prompt")
    /\ computing' = computing - 1
    /\ LET l == [ loc[s] EXCEPT !.running = FALSE ]
       IN  IF ~ok
           THEN loc' = [ loc EXCEPT ![s] =
                           Raise([ l EXCEPT !.failed = Append(@, "g_embed_prompt") ],
                                 "RuntimeError") ]
           ELSE \E res \in Search(db[l.table_name], RagLimit) :
                   loc' = [ loc EXCEPT ![s] =
                              [ l EXCEPT !.pc = "g_generate",
                                         !.rag_ctx = [ j \in DOMAIN res |->
                                                         [ chunk |-> res[j].text,
                                                           chars |-> RagChars ] ] ] ]
    /\ UNCHANGED << phase, boot, pending, nread, knowledge_table, table_has_len, db,
                    memory_graph, chunk_embeds, created, opinion_log >>

\* the log with one more update of (agent, topic)
Logged(log, agent, topic, text) ==
    [ k \in (DOMAIN log) \cup { << agent, topic >> } |->
        IF k = << agent, topic >>
        THEN (IF k \in DOMAIN log THEN log[k] ELSE << >>) \o << text >>
        ELSE log[k] ]

\* the generation returns text, already cut at the end marker and stripped, or
\* raises; the graph is updated and the answer printed (lines 326-334)
Generate(s, ok, text) ==
    /\ Returning(s, "g_generate")
    /\ computing' = computing - 1
    /\ LET l == [ loc[s] EXCEPT !.running = FALSE ]
       IN  IF ~ok
           THEN /\ loc' = [ loc EXCEPT ![s] =
                              Raise([ l EXCEPT !.failed = Append(@, "g_generate") ],
                                    "RuntimeError") ]
                /\ UNCHANGED << memory_graph, opinion_log >>
           ELSE /\ memory_graph' = update_graph_memory(memory_graph, l.agent, text, l.topic)
                /\ opinion_log' = Logged(opinion_log, l.agent, l.topic, text)
                /\ loc' = [ loc EXCEPT ![s] =
                              Respond([ l EXCEPT !.final_text = text ],
                                      "success", "text", text) ]
    /\ UNCHANGED << phase, boot, pending, nread, knowledge_table, table_has_len, db,
                    chunk_embeds, created >>

(***************************************************************************)
(* The worker: any lines on stdin                                          *)
(***************************************************************************)
Prompt(name, topic) ==
    NameMarker \o <<" ">> \o name \o <<"\n">> \o TopicMarker \o <<" ">> \o topic \o <<"\n">>

Amul5g == <<"A","m","u","l"," ","5","g">>

MainLines ==
    { Line("blank", "", None, None, None, ""), Line("bad", "", None, None, None, ""),
      Line("json", "status", None, None, None, ""),
      Line("json", "", None, None, None, "") }
    \cup { Line("json", "query_memory", q, None, None, "") : q \in { None, <<"X">> } }
    \cup { Line("json", "research", None, q, None, "") : q \in { None, << >>, Amul5g } }
    \cup { Line("json", "get_facts", q, None, None, "") : q \in { None, Amul5g } }
    \cup { Line("json", "generate", None, None, pr, pdf) :
             pr \in { None, Prompt(<<"A">>, <<"T">>) },
             pdf \in { "", "pdf_A", "pdf_empty" } }

MainTexts == { <<"I"," ","L","O","V","E"," ","i","t">>, <<"b","a","d">> }

DoReadLine == ReadLine(MainLines)

DoComputeEnter == \E s \in Slots : ComputeEnter(s)

DoQmLookup == \E s \in Slots, ok \in BOOLEAN : QmLookup(s, ok)

DoQmWeb == \E s \in Slots, ok \in BOOLEAN, n \in 0..MaxWebHits : QmWeb(s, ok, n)

DoQmHitEmbed == \E s \in Slots, ok \in BOOLEAN : QmHitEmbed(s, ok)

DoRsAttempt == \E s \in Slots, outcome \in LookupOutcomes : RsAttempt(s, outcome)

DoRsWiki == \E s \in Slots, extract \in BOOLEAN : RsWiki(s, extract)

DoFcAttempt == \E s \in Slots, outcome \in LookupOutcomes : FcAttempt(s, outcome)

DoGEmbedChunks == \E s \in Slots, ok \in BOOLEAN : GEmbedChunks(s, ok)

DoGOpen == \E s \in Slots : GOpen(s)

DoGEmbedPrompt == \E s \in Slots, ok \in BOOLEAN : GEmbedPrompt(s, ok)

DoGenerate == \E s \in Slots : \E text \in MainTexts, ok \in BOOLEAN : Generate(s, ok, text)

Next ==
    \/ DoReadLine
    \/ ReadEof
    \/ DoComputeEnter
    \/ DoQmLookup
    \/ DoQmWeb
    \/ DoQmHitEmbed
    \/ DoRsAttempt
    \/ DoRsWiki
    \/ DoFcAttempt
    \/ DoGEmbedChunks
    \/ DoGOpen
    \/ DoGEmbedPrompt
    \/ DoGenerate

Spec == Init /\ [][Next]_vars

(***************************************************************************)
(* The opinion graph under generate requests (specification SpecGraph).    *)
(* The worker starts after the first k of MaxPeers agents have each given  *)
(* their opinion on FeedTopic in an earlier generate request; the requests *)
(* that follow come from agents of the three shards, on FeedTopic, or      *)
(* carry no prompt at all.                                                 *)
(***************************************************************************)
MaxPeers == 6

DigitSeq == << "0", "1", "2", "3", "4", "5", "6", "7", "8", "9" >>

Peer(i) == << "P", DigitSeq[i + 1] >>

ILoveIt == << "I", " ", "L", "O", "V", "E", " ", "i", "t" >>

Meh == << "m", "e", "h" >>

PeerText(i) ==
    CASE i % 3 = 1 -> ILoveIt
      [] i % 3 = 2 -> << "b", "a", "d" >>
      [] OTHER -> Meh

FeedTopic == << "T" >>

RECURSIVE GraphAfter(_)
GraphAfter(k) ==
    IF k = 0 THEN EmptyGraph
    ELSE update_graph_memory(GraphAfter(k - 1), Peer(k), PeerText(k), FeedTopic)

RECURSIVE LogAfter(_)
LogAfter(k) ==
    IF k = 0 THEN << >>
    ELSE Logged(LogAfter(k - 1), Peer(k), FeedTopic, PeerText(k))

InitGraph ==
    /\ pending \in 1..MaxReq
    /\ nread = 0
    /\ loc = [ s \in Slots |-> Blank ]
    /\ computing = 0
    /\ chunk_embeds = [ p \in Payloads |-> 0 ]
    /\ created = [ p \in Payloads |-> 0 ]
    /\ table_has_len = FALSE
    /\ phase = "ready"
    /\ boot = << "loading_models", "ready" >>
    /\ knowledge_table = NoTable
    /\ db = << >>
    /\ \E k \in 0..MaxPeers :
          /\ memory_graph = GraphAfter(k)
          /\ opinion_log = LogAfter(k)

AAA == << "A", "A", "A" >>

GraphAgents == { AAA, << "A", "A", "B" >>, << "A", "A", "C" >> }

GraphLines ==
    { Line("json", "generate", None, None, None, "") }
    \cup { Line("json", "generate", None, None, Prompt(a, FeedTopic), "") :
             a \in GraphAgents }

\* a text longer than the content kept, with its keyword past the cut
LongHate == [ i \in 1..(ContentLen - 2) |-> "x" ] \o << "h", "a", "t", "e" >>

GraphTexts ==
    { << "b", "a", "d" >>, LongHate,
      << "e", "x", "c", "e", "l", "l", "e", "n", "t" >>,
      << "G", "r", "e", "a", "t", " ", "b", "u", "t", " ", "b", "a", "d" >> }

GraphReadLine == ReadLine(GraphLines)

GraphGenerate ==
    \E s \in Slots : \E text \in GraphTexts, ok \in BOOLEAN : Generate(s, ok, text)

NextGraph ==
    \/ GraphReadLine
    \/ ReadEof
    \/ DoComputeEnter
    \/ GraphGenerate

SpecGraph == InitGraph /\ [][NextGraph]_vars

(***************************************************************************)
(* The lookup loops under one research or get_facts request (specification *)
(* SpecRelax): the query of get_facts is any text of at most MaxWords of   *)
(* the words below, separated by a space or a tab, and the query of        *)
(* research any such text of two words less; both also get the queries of  *)
(* OddQueries.                                                             *)
(***************************************************************************)
MaxWords == 3

Words == { << "A", "m", "u", "l" >>, << "5", "g" >>, << "f", "o", "r" >> }

Seps == { << " " >>, << "\t" >> }

RECURSIVE QueriesOf(_)
QueriesOf(n) ==
    IF n = 1 THEN Words
    ELSE LET shorter == QueriesOf(n - 1)
         IN  shorter \cup { q \o sep \o w : q \in shorter, sep \in Seps, w \in Words }

\* no query, an empty one, one with spaces to collapse, one with a parenthesis,
\* one with fluff inside a word
OddQueries ==
    { None, << >>, << " ", "a", " ", " ", "b" >>,
      << "A", "m", "u", "l", " ", "(", "x", ")", " ", "5", "g" >>,
      << "u", "n", "o", "f", "f", "i", "c", "i", "a", "l", " ", "A", "m", "u", "l" >> }

RelaxLines ==
    { Line("json", "research", None, q, None, "") :
        q \in QueriesOf(MaxWords - 2) \cup OddQueries }
    \cup { Line("json", "get_facts", q, None, None, "") :
             q \in QueriesOf(MaxWords) \cup OddQueries }

InitRelax ==
    /\ pending = 1
    /\ nread = 0
    /\ loc = [ s \in Slots |-> Blank ]
    /\ memory_graph = EmptyGraph
    /\ opinion_log = << >>
    /\ computing = 0
    /\ chunk_embeds = [ p \in Payloads |-> 0 ]
    /\ created = [ p \in Payloads |-> 0 ]
    /\ table_has_len = FALSE
    /\ phase = "ready"
    /\ boot = << "loading_models", "ready" >>
    /\ knowledge_table = NoTable
    /\ db = << >>

RelaxReadLine == ReadLine(RelaxLines)

NextRelax ==
    \/ RelaxReadLine
    \/ ReadEof
    \/ DoRsAttempt
    \/ DoRsWiki
    \/ DoFcAttempt

SpecRelax == InitRelax /\ [][NextRelax]_vars

(***************************************************************************)
(* The relaxation under repeated application (specification SpecSim): the  *)
(* retry loop of get_facts in the worker, and robust_search_simulation of  *)
(* test_robustness.py, which relaxes with the copy of that file until its  *)
(* simulated database matches, for at most SimAttempts attempts.           *)
(***************************************************************************)
SimAttempts == 4

MaxKeyLen == 25

MinQueryLen == 3

\* the only key of the simulated database
CoreKey ==
    << "a", "m", "u", "l", " ", "p", "r", "o", "t", "e", "i", "n", " ", "l",
       "a", "s", "s", "i" >>

\* robust_search_simulation is called (test_robustness.py, lines 54-57, 107)
SimStart(Inputs) ==
    /\ phase = "test"
    /\ LoopAtTop
    /\ pending > 0
    /\ \E messy_input \in Inputs :
          loc' = [ s \in Slots |->
                     IF s = SlotOf(nread)
                     THEN [ Blank EXCEPT !.task = "robust_search", !.query = messy_input,
                                         !.current_q = messy_input, !.pc = "sim_attempt" ]
                     ELSE IF loc[s].pc = "responded" THEN Blank ELSE loc[s] ]
    /\ pending' = pending - 1
    /\ nread' = nread + 1
    /\ UNCHANGED << phase, boot, knowledge_table, table_has_len, db, memory_graph,
                    computing, chunk_embeds, created, opinion_log >>

\* one attempt of robust_search_simulation (lines 59-74)
SimAttempt(s) ==
    /\ loc[s].pc = "sim_attempt"
    /\ LET l        == loc[s]
           match    == /\ Contains(CoreKey, Lower(l.current_q))
                       /\ Len(l.current_q) < MaxKeyLen
           searched == [ l EXCEPT !.calls =
                           Append(@, Call(l.current_q, IF match THEN "found" ELSE "empty")) ]
           new_q    == test_clean_query_step(l.current_q)
       IN  loc' = [ loc EXCEPT ![s] =
                      IF match
                      THEN Respond([ searched EXCEPT !.got_data = TRUE ],
                                   "returned", "result", << "True" >>)
                      ELSE IF new_q = l.current_q \/ Len(new_q) < MinQueryLen
                      THEN Respond(searched, "returned", "result", << "False" >>)
                      ELSE LET m == [ searched EXCEPT !.current_q = new_q,
                                                      !.attempt = @ + 1 ]
                           IN  IF m.attempt >= SimAttempts
                               THEN Respond(m, "returned", "result", << "False" >>)
                               ELSE m ]
    /\ UNCHANGED << phase, boot, pending, nread, knowledge_table, table_has_len, db,
                    memory_graph, computing, chunk_embeds, created, opinion_log >>

\* "Product (Rose) 200ml Pack of 6 for Gym"
ProductQuery ==
    << "P", "r", "o", "d", "u", "c", "t", " ", "(", "R", "o", "s", "e", ")",
       " ", "2", "0", "0", "m", "l", " ", "P", "a", "c", "k", " ", "o", "f",
       " ", "6", " ", "f", "o", "r", " ", "G", "y", "m" >>

\* the input of TEST 1 (test_robustness.py, line 107)
AmulQuery ==
    << "A", "m", "u", "l", " ", "P", "r", "o", "t", "e", "i", "n", " ", "L",
       "a", "s", "s", "i", " ", "(", "R", "o", "s", "e", " ", "F", "l", "a",
       "v", "o", "u", "r", ")", " ", "2", "0", "0", "m", "l", " ", "P", "a",
       "c", "k", " ", "o", "f", " ", "6", " ", "f", "o", "r", " ", "G", "y",
       "m" >>

\* queries with measurements, as tokens and inside tokens
UnitQueries ==
    { << "2", "0", "0", "M", "L" >>, << "A", "m", "u", "l", " ", "1", "L" >>,
      << "2", "k", "g", " ", "A", "m", "u", "l" >>, << "a", "5", "g" >>,
      << "5", "g", "5", "g" >>, << "A", "m", "u", "l", " ", "3", "o", "z", "." >> }

SimQueries ==
    { ProductQuery, AmulQuery } \cup UnitQueries
    \cup QueriesOf(MaxWords - 1) \cup (OddQueries \ { None })

SimLines == { Line("json", "get_facts", q, None, None, "") : q \in SimQueries }

\* the worker before its first line, or the test program before its call
InitSim ==
    /\ pending = 1
    /\ nread = 0
    /\ loc = [ s \in Slots |-> Blank ]
    /\ memory_graph = EmptyGraph
    /\ opinion_log = << >>
    /\ computing = 0
    /\ chunk_embeds = [ p \in Payloads |-> 0 ]
    /\ created = [ p \in Payloads |-> 0 ]
    /\ table_has_len = FALSE
    /\ knowledge_table = NoTable
    /\ db = << >>
    /\ \/ phase = "ready" /\ boot = << "loading_models", "ready" >>
       \/ phase = "test" /\ boot = << >>

SimReadLine == ReadLine(SimLines)

SimRun == SimStart(SimQueries)

SimSearch == \E s \in Slots : SimAttempt(s)

NextSim ==
    \/ SimReadLine
    \/ ReadEof
    \/ DoFcAttempt
    \/ SimRun
    \/ SimSearch

SpecSim == InitSim /\ [][NextSim]_vars

(***************************************************************************)
(* Names used as agent and as topic (specification SpecTags): generate     *)
(* requests in which a name is the agent of one request and the topic of   *)
(* another, or both of one request.                                        *)
(***************************************************************************)
TagNames == { AAA, FeedTopic }

TagLines ==
    { Line("json", "generate", None, None, Prompt(a, t), "") : a \in TagNames, t \in TagNames }

TagReadLine == ReadLine(TagLines)

NextTags ==
    \/ TagReadLine
    \/ ReadEof
    \/ DoComputeEnter
    \/ DoGenerate

SpecTags == InitGraph /\ [][NextTags]_vars

(***************************************************************************)
(* The scalability test of test_robustness.py (specification SpecShard):   *)
(* TEST 2 calls shard_context for the agents 1..10 on one list of voices   *)
(* and prints what each agent sees.  The list is any list of up to         *)
(* MaxVoices voices, or the ten voices of the test.                        *)
(***************************************************************************)
MaxVoices == 5

\* for i in range(1, 11)
TotalAgents == 10

Focus(agent_id) ==
    CASE agent_id % 3 = 0 -> "Positive Reviews"
      [] agent_id % 3 = 1 -> "Critical Reviews"
      [] OTHER -> "Recent Issues"

\* a sharding whose last cluster reads one third, like the others
shard_context_equal_thirds(agent_id, total_agents, all_voices, facts) ==
    LET shard_size == Max(1, Len(all_voices) \div 3)
    IN  [ agent_id |-> agent_id,
          focus_lens |-> Focus(agent_id),
          knowledge_fragment |->
              Slice(all_voices, shard_size * (agent_id % 3), shard_size * ((agent_id % 3) + 1)),
          facts |-> facts ]

\* shard_context (test_robustness.py, lines 77-103)
shard_context(agent_id, total_agents, all_voices, facts) ==
    LET shard_size == Max(1, Len(all_voices) \div 3)
        my_voices  ==
            CASE agent_id % 3 = 0 -> Slice(all_voices, 0, shard_size)
              [] agent_id % 3 = 1 -> Slice(all_voices, shard_size, shard_size * 2)
              [] OTHER -> Slice(all_voices, shard_size * 2, Len(all_voices))
    IN  [ agent_id |-> agent_id,
          focus_lens |-> Focus(agent_id),
          knowledge_fragment |-> my_voices,
          facts |-> facts ]

\* n voices, each unlike the others
DistinctVoices(n) == [ i \in 1..n |-> DigitSeq[i] ]

\* MOCK_VOICES: ten comments
MockVoices == DistinctVoices(10)

\* MOCK_FACTS
MockFacts == [ product_name |-> "Amul Protein Lassi", nutriscore |-> "B", protein |-> "15g" ]

VoiceLists ==
    UNION { [ 1..k -> { "a", "b" } ] : k \in 0..MaxVoices }
    \cup { DistinctVoices(n) : n \in 0..MaxVoices } \cup { MockVoices }

FactSets == { MockFacts, [ product_name |-> "", nutriscore |-> "", protein |-> "" ] }

\* the test program before the loop of TEST 2
InitShard ==
    /\ pending = TotalAgents
    /\ nread = 0
    /\ \E all_voices \in VoiceLists, facts \in FactSets :
          loc = [ s \in Slots |->
                    IF s = 1
                    THEN [ Blank EXCEPT !.task = "scalability", !.pc = "shard_loop",
                                        !.voices = all_voices, !.facts = facts ]
                    ELSE Blank ]
    /\ memory_graph = EmptyGraph
    /\ opinion_log = << >>
    /\ computing = 0
    /\ chunk_embeds = [ p \in Payloads |-> 0 ]
    /\ created = [ p \in Payloads |-> 0 ]
    /\ table_has_len = FALSE
    /\ knowledge_table = NoTable
    /\ db = << >>
    /\ phase = "test"
    /\ boot = << >>

\* one turn of the loop (lines 113-119): the context of agent i is built and
\* printed; results holds the contexts built so far
ShardStep ==
    /\ phase = "test"
    /\ loc[1].pc = "shard_loop"
    /\ pending > 0
    /\ LET i == nread + 1
       IN  loc' = [ loc EXCEPT ![1].results =
                      Append(@, shard_context(i, TotalAgents, loc[1].voices, loc[1].facts)) ]
    /\ pending' = pending - 1
    /\ nread' = nread + 1
    /\ UNCHANGED << phase, boot, knowledge_table, table_has_len, db, memory_graph,
                    computing, chunk_embeds, created, opinion_log >>

\* the loop is over and the program ends
ShardDone ==
    /\ phase = "test"
    /\ loc[1].pc = "shard_loop"
    /\ pending = 0
    /\ phase' = "exited"
    /\ loc' = [ loc EXCEPT ![1] = NoAnswer(@) ]
    /\ UNCHANGED << boot, pending, nread, knowledge_table, table_has_len, db,
                    memory_graph, computing, chunk_embeds, created, opinion_log >>

NextShard ==
    \/ ShardStep
    \/ ShardDone

SpecShard == InitShard /\ [][NextShard]_vars

(***************************************************************************)
(* Properties of the worker (specification Spec)                           *)
(***************************************************************************)
Handling(s, task) == loc[s].task = task /\ loc[s].pc # "unused"

Answered(s, task) == loc[s].task = task /\ loc[s].pc = "responded"

\* C1: whatever number of requests is waiting on stdin, at most one call of the
\* embedding / generation capability is in progress at any moment: the count of
\* the calls entered and not yet left never exceeds 1.
C1_OneComputeCall ==
    /\ computing <= 1
    /\ computing = Cardinality({ s \in Slots : loc[s].running })

\* a generation call is in progress while another request waits on stdin
C1_Witness ==
    /\ computing = 1
    /\ pending >= 1
    /\ \E s \in Slots : loc[s].pc = "g_generate" /\ loc[s].running

\* the rows of the memory bank, none when the table is absent
BankRows == IF knowledge_table = NoTable THEN << >> ELSE db[knowledge_table]

IsLive(text) == text[1] = "[LIVE WEB] "

\* the live fallback of the request succeeded: it returned live records only
FallbackSucceeded(l) ==
    /\ l.live_calls > 0
    /\ l.results # << >>
    /\ \A j \in DOMAIN l.results : IsLive(l.results[j])

\* C2 (as claimed): a query_memory request that starts from an empty store (the
\* memory bank absent, or present without rows) and whose live fallback succeeds
\* has written at least one record, the records it returned are in the store, and
\* the store is consulted by the next request.
C2_WriteBackOnEmptyStore ==
    \A s \in Slots :
        ( /\ Answered(s, "query_memory")
          /\ FallbackSucceeded(loc[s])
          /\ Len(BankRows) = loc[s].written )
        => /\ loc[s].written >= 1
           /\ \A j \in DOMAIN loc[s].results :
                 \E k \in DOMAIN BankRows : BankRows[k].text = loc[s].results[j]
           /\ TableTruthy

\* C3: when the store lookup of a query_memory request yields a hit, the request
\* does not call the live search, writes nothing, and answers with exactly the
\* texts of the hits, at most 5, in the order of the hits.
C3_HitsAnswerWithoutFallback ==
    \A s \in Slots :
        (Handling(s, "query_memory") /\ loc[s].hits # << >>)
        => /\ loc[s].live_calls = 0
           /\ loc[s].written = 0
           /\ loc[s].new_data = << >>
           /\ loc[s].pc = "responded"
           /\ loc[s].resp.status = "success"
           /\ loc[s].resp.key = "data"
           /\ Len(loc[s].hits) <= 5
           /\ Len(loc[s].resp.data) = Len(loc[s].hits)
           /\ \A j \in DOMAIN loc[s].hits : loc[s].resp.data[j] = loc[s].hits[j].text

\* a request answered from 5 hits of a bank of more than 5 rows
C3_Witness ==
    \E s \in Slots :
        /\ Answered(s, "query_memory")
        /\ Len(loc[s].hits) = 5
        /\ Len(BankRows) > 5

\* C4: for every document payload at most one table is ever created and its
\* chunks are embedded at most once (never when the table exists); a request
\* whose table exists embeds only its prompt; the table name is the same
\* function of the payload in every request.
C4_IngestOnce ==
    /\ \A p \in Payloads :
          /\ created[p] <= 1
          /\ chunk_embeds[p] <= 1
          /\ chunk_embeds[p] = created[p]
          /\ created[p] = 1 => DocTable(p) \in DOMAIN db
    /\ \A s \in Slots :
          Handling(s, "generate") /\ loc[s].pdf # ""
          => /\ loc[s].table_name = << "doc_", Md5(loc[s].pdf) >>
             /\ loc[s].pc = "g_embed_chunks" => loc[s].table_name \notin DOMAIN db
             /\ (loc[s].chunks # << >> /\ loc[s].table_name \in DOMAIN db)
                  => created[loc[s].pdf] = 1

\* a second request with the payload of an earlier one embeds its prompt against
\* the table the earlier one created
C4_Witness ==
    \E s \in Slots :
        /\ nread = 2
        /\ Returning(s, "g_embed_prompt")
        /\ loc[s].pdf = "pdf_A"
        /\ loc[s].chunks = << >>
        /\ created["pdf_A"] = 1
        /\ chunk_embeds["pdf_A"] = 1

\* C5 (as claimed): a generate request whose document yields no chunk creates no
\* table and is answered with status success and an empty RAG context, unless a
\* compute call of the request failed.
C5_NoTextIsNoError ==
    \A s \in Slots :
        ( /\ Answered(s, "generate")
          /\ loc[s].pdf # ""
          /\ process_pdf(loc[s].pdf) = << >> )
        => /\ loc[s].table_name \notin DOMAIN db
           /\ loc[s].rag_ctx = << >>
           /\ \/ loc[s].resp.status = "success"
              \/ loc[s].resp.data = << "RuntimeError" >>

(***************************************************************************)
(* Properties of the opinion graph (specification SpecGraph)               *)
(***************************************************************************)
\* the edges of G from agent to topic
EdgesOf(G, agent, topic) ==
    { i \in DOMAIN G.edges : G.edges[i].u = agent /\ G.edges[i].v = topic }

\* the text of the latest update of the pair k
LatestText(k) == opinion_log[k][Len(opinion_log[k])]

\* C6: after any sequence of updates the graph holds exactly one edge for every
\* (agent, topic) pair that was updated and none for any other pair, and the
\* weight and the content of that edge are those of the latest update of the
\* pair: the sentiment of its text and the first 120 characters of its text.
C6_LastWriteWins ==
    /\ \A k \in DOMAIN opinion_log :
          Cardinality(EdgesOf(memory_graph, k[1], k[2])) = 1
    /\ \A i \in DOMAIN memory_graph.edges :
          LET e == memory_graph.edges[i]
              k == << e.u, e.v >>
          IN  /\ k \in DOMAIN opinion_log
              /\ e.weight = Sentiment(LatestText(k))
              /\ e.content = SubSeq(LatestText(k), 1, Min(120, Len(LatestText(k))))

\* a pair updated twice with texts of different sentiment has one edge, and the
\* edge carries the second sentiment
C6_Witness ==
    \E k \in DOMAIN opinion_log :
        /\ Len(opinion_log[k]) = 2
        /\ Sentiment(opinion_log[k][1]) = 1
        /\ Sentiment(opinion_log[k][2]) = -1
        /\ \E i \in DOMAIN memory_graph.edges :
              /\ EdgesOf(memory_graph, k[1], k[2]) = { i }
              /\ memory_graph.edges[i].weight = -1

\* the opinions on topic of the agents other than agent, in insertion order
Others(G, agent, topic) ==
    LET Other(e) == e.v = topic /\ e.u # agent
    IN  SelectSeq(G.edges, Other)

\* C7: the feed of a generate request is exactly the slice others[start : start+3]
\* of the other agents' opinions on the topic in insertion order, with n the
\* length of that list, shardIndex = (sum of the character codes of the agent
\* name) mod 3, shardSize = max(1, n div 2), start = (shardIndex * shardSize) mod n;
\* the slice is cut short at the end of the list and does not wrap around; agent
\* "AAA" with 6 other opinions receives the first three; without other opinions
\* the context is empty.
C7_ShardIsPlainSlice ==
    \A s \in Slots :
        Handling(s, "generate")
        => LET others      == Others(memory_graph, loc[s].agent, loc[s].topic)
               n           == Len(others)
               shard_index == SumOrd(loc[s].agent) % 3
               shard_size  == IF n \div 2 >= 1 THEN n \div 2 ELSE 1
               start       == (shard_index * shard_size) % n
               feed        == loc[s].sharded_ctx.lines
           IN  IF n = 0 THEN loc[s].sharded_ctx = NoContext
               ELSE /\ Len(feed) = (IF start + 3 <= n THEN 3 ELSE n - start)
                    /\ \A i \in DOMAIN feed :
                          /\ feed[i].peer = others[start + i].u
                          /\ feed[i].content = others[start + i].content
                    /\ (loc[s].agent = AAA /\ n = 6)
                       => \A i \in 1..3 : feed[i].peer = others[i].u

\* agent AAA asks about a topic on which 6 other agents have spoken and receives
\* the opinions of the first three
C7_Witness ==
    \E s \in Slots :
        /\ Handling(s, "generate")
        /\ loc[s].agent = AAA
        /\ Len(Others(memory_graph, AAA, loc[s].topic)) = 6
        /\ Len(loc[s].sharded_ctx.lines) = 3
        /\ \A i \in 1..3 : loc[s].sharded_ctx.lines[i].peer = Peer(i)

PositiveWords ==
    { << "l", "o", "v", "e" >>, << "g", "r", "e", "a", "t" >>,
      << "e", "x", "c", "e", "l", "l", "e", "n", "t" >>, << "b", "u", "y" >>,
      << "a", "m", "a", "z", "i", "n", "g" >>, << "y", "e", "s" >> }

NegativeWords ==
    { << "h", "a", "t", "e" >>, << "b", "a", "d" >>,
      << "t", "e", "r", "r", "i", "b", "l", "e" >>, << "a", "v", "o", "i", "d" >>,
      << "e", "x", "p", "e", "n", "s", "i", "v", "e" >>, << "n", "o" >> }

HasAny(words, text) == \E w \in words : Contains(w, Lower(text))

\* C8 (as claimed): the weight of every edge is +1 if the case-folded text of the
\* latest update of its pair contains one of love, great, excellent, buy,
\* amazing, yes; otherwise -1 if it contains one of hate, bad, terrible, avoid,
\* expensive, no; otherwise 0.
C8_KeywordSentiment ==
    \A i \in DOMAIN memory_graph.edges :
        LET e    == memory_graph.edges[i]
            text == LatestText(<< e.u, e.v >>)
        IN  e.weight = IF HasAny(PositiveWords, text) THEN 1
                       ELSE IF HasAny(NegativeWords, text) THEN -1
                       ELSE 0

(***************************************************************************)
(* Properties of the lookup loops (specification SpecRelax)                *)
(***************************************************************************)
Lookup(s) == loc[s].task \in { "research", "get_facts" }

\* the next step of the request is a provider call
AtCall(s) == loc[s].pc \in { "rs_call", "fc_call" }

\* C9: a lookup loop issues at most 3 provider calls, the first with the query
\* of the request and each later one with the relaxation of the query of the
\* call before it; no call follows a call that found data, and none follows a
\* relaxation that returned its input; the loop ends only after a call that
\* found data, after the third call, or on such a relaxation.
C9_BoundedRelaxingLoop ==
    \A s \in Slots :
        Lookup(s)
        => LET calls == loc[s].calls
               n     == Len(calls)
           IN  /\ n <= 3
               /\ n >= 1 => calls[1].q = loc[s].topic
               /\ \A k \in 1..(n - 1) :
                     /\ calls[k].outcome # "found"
                     /\ calls[k + 1].q = clean_query_step(calls[k].q)
                     /\ calls[k + 1].q # calls[k].q
               /\ (AtCall(s) /\ n = 0) => loc[s].current_q = loc[s].topic
               /\ (AtCall(s) /\ n >= 1)
                  => /\ n < 3
                     /\ calls[n].outcome # "found"
                     /\ loc[s].current_q = clean_query_step(calls[n].q)
                     /\ loc[s].current_q # calls[n].q
               /\ (~AtCall(s) /\ n >= 1)
                  => \/ calls[n].outcome = "found"
                     \/ n = 3
                     \/ clean_query_step(calls[n].q) = calls[n].q

\* a get_facts request whose loop ended after two calls without data, because
\* the second query could not be relaxed
C9_Witness ==
    \E s \in Slots :
        /\ Answered(s, "get_facts")
        /\ Len(loc[s].calls) = 2
        /\ loc[s].calls[2].outcome = "empty"
        /\ clean_query_step(loc[s].calls[2].q) = loc[s].calls[2].q

\* the successive values of the query of a lookup loop: the queries of its calls
\* and the value the loop holds now
Trail(l) == [ k \in 1..Len(l.calls) |-> l.calls[k].q ] \o << l.current_q >>

\* q holds a whitespace character other than a space
OddSpace(q) == \E i \in DOMAIN q : q[i] \in { "\t", "\n", "\r" }

\* C10 (amended): a relaxation is never longer than its input; when it differs
\* from its input it is strictly shorter, unless the input holds a whitespace
\* character other than a space; a relaxation that differs from its input holds
\* no such character; a sequence of relaxations never returns to a value it
\* left.
C10_NeverLongerNeverBack ==
    \A s \in Slots :
        Lookup(s)
        => LET t == Trail(loc[s])
           IN  /\ \A k \in 1..(Len(t) - 1) :
                     /\ Len(t[k + 1]) <= Len(t[k])
                     /\ t[k + 1] # t[k]
                        => /\ Len(t[k + 1]) < Len(t[k]) \/ OddSpace(t[k])
                           /\ ~OddSpace(t[k + 1])
               /\ \A i, j \in DOMAIN t :
                     (i < j /\ t[i] = t[j]) => (j = i + 1 /\ j = Len(t))

\* a query with a tab is relaxed to a text of the same length, which is then
\* relaxed to a shorter one
C10_Witness ==
    \E s \in Slots :
        /\ Lookup(s)
        /\ Len(loc[s].calls) >= 3
        /\ OddSpace(loc[s].calls[1].q)
        /\ loc[s].calls[2].q # loc[s].calls[1].q
        /\ Len(loc[s].calls[2].q) = Len(loc[s].calls[1].q)
        /\ Len(loc[s].calls[3].q) < Len(loc[s].calls[2].q)

\* C10 (as claimed): a relaxation is never longer than its input, and when it
\* differs from its input it is strictly shorter.
C10_ShorterWheneverChanged ==
    \A s \in Slots :
        Lookup(s)
        => LET t == Trail(loc[s])
           IN  \A k \in 1..(Len(t) - 1) :
                  /\ Len(t[k + 1]) <= Len(t[k])
                  /\ t[k + 1] # t[k] => Len(t[k + 1]) < Len(t[k])

(***************************************************************************)
(* Properties of the relaxation under repeated application (SpecSim)       *)
(***************************************************************************)
UnitNames == { << "m", "l" >>, << "g" >>, << "k", "g" >>, << "l" >>, << "o", "z" >> }

\* q holds a number+unit token: digits that start at a word boundary, followed
\* by a unit (in either case) that ends at a word boundary
HasUnitToken(q) ==
    \E i, j \in DOMAIN q : \E u \in UnitNames :
        /\ i <= j
        /\ \A k \in i..j : q[k] \in Digits
        /\ i = 1 \/ ~IsWordChar(q[i - 1])
        /\ j + Len(u) <= Len(q)
        /\ \A k \in 1..Len(u) : LowerChar(q[j + k]) = u[k]
        /\ j + Len(u) = Len(q) \/ ~IsWordChar(q[j + Len(u) + 1])

Simulating(s) == loc[s].task = "robust_search"

\* C11: relaxing "Product (Rose) 200ml Pack of 6 for Gym" again and again
\* reaches a fixed point ("Product") within 4 applications, in the worker's
\* loop and in the simulated search; every value of a loop that is a fixed point
\* of the relaxation holds no number+unit token and is returned unchanged by a
\* further relaxation; the simulated search of the query of TEST 1 finds its
\* match within its 4 attempts, with a query that holds the core name and no
\* number+unit token.
C11_ConvergesToCore ==
    \A s \in Slots :
        /\ Lookup(s)
           => /\ \A k \in DOMAIN Trail(loc[s]) :
                    LET t == Trail(loc[s])[k]
                    IN  clean_query_step(t) = t
                        => /\ ~HasUnitToken(t)
                           /\ clean_query_step(clean_query_step(t)) = t
              /\ (loc[s].topic = ProductQuery /\ ~AtCall(s) /\ ~loc[s].got_data)
                 => /\ Len(loc[s].calls) <= 4
                    /\ loc[s].current_q = << "P", "r", "o", "d", "u", "c", "t" >>
                    /\ clean_query_step(loc[s].current_q) = loc[s].current_q
        /\ Simulating(s)
           => /\ Len(loc[s].calls) <= 4
              /\ \A k \in DOMAIN Trail(loc[s]) :
                    LET t == Trail(loc[s])[k]
                    IN  test_clean_query_step(t) = t
                        => /\ ~HasUnitToken(t)
                           /\ test_clean_query_step(test_clean_query_step(t)) = t
              /\ (loc[s].query = ProductQuery /\ loc[s].pc = "responded")
                 => /\ loc[s].current_q = << "P", "r", "o", "d", "u", "c", "t" >>
                    /\ test_clean_query_step(loc[s].current_q) = loc[s].current_q
              /\ (loc[s].query = AmulQuery /\ loc[s].pc = "responded")
                 => /\ loc[s].resp.data = << "True" >>
                    /\ Contains(CoreKey, Lower(loc[s].current_q))
                    /\ ~HasUnitToken(loc[s].current_q)
                    /\ "(" \notin Range(loc[s].current_q)

\* the simulated search of the query of TEST 1 has found its match at its
\* second attempt
C11_Witness ==
    \E s \in Slots :
        /\ Simulating(s)
        /\ loc[s].query = AmulQuery
        /\ loc[s].pc = "responded"
        /\ loc[s].resp.data = << "True" >>
        /\ Len(loc[s].calls) = 2

(***************************************************************************)
(* The error surface of the lookups                                        *)
(***************************************************************************)
\* C12: a research or get_facts request that carries its product / query is
\* never answered with an error: the answer is a success response that holds
\* the data found or, when nothing was found, the sentinel alert.
C12_LookupsNeverRaise ==
    \A s \in Slots :
        (Answered(s, "research") \/ Answered(s, "get_facts")) /\ ~loc[s].missing =>
            /\ loc[s].resp.status = "success"
            /\ loc[s].resp.data # << >>
            /\ loc[s].task = "get_facts" /\ ~loc[s].got_data =>
                   loc[s].resp.data = Alert("get_facts")
            /\ loc[s].task = "research" /\ loc[s].voices = << >> =>
                   loc[s].resp.data = << Alert("research") >>

\* C13: a request in which an embedding or generation call failed is answered
\* with status error and a message, and the failed call is not issued again in
\* that request.  The embedding of the query for the store lookup is left
\* aside: the retrieval policy counts its failure as zero hits.
C13_ComputeFailureIsError ==
    \A s \in Slots :
        /\ \A i, j \in DOMAIN loc[s].failed : i # j => loc[s].failed[i] # loc[s].failed[j]
        /\ loc[s].pc = "responded"
             /\ (\E j \in DOMAIN loc[s].failed : loc[s].failed[j] # "qm_embed") =>
               /\ loc[s].resp.status = "error"
               /\ loc[s].resp.key = "message"
               /\ loc[s].resp.data # << >>

\* C14: a request without the field its task requires is answered with status
\* error and a message, not with a success response.
C14_MissingFieldIsError ==
    \A s \in Slots :
        loc[s].pc = "responded" /\ loc[s].missing =>
            /\ loc[s].resp.status = "error"
            /\ loc[s].resp.key = "message"
            /\ loc[s].resp.data # << >>

\* C15: a query_memory request whose store lookup gave no hit and whose live
\* search raised or returned no result is answered with exactly one string, the
\* diagnostic of the failure, never with an empty sequence.
C15_NothingFoundIsDiagnosed ==
    \A s \in Slots :
        ( /\ Answered(s, "query_memory")
          /\ loc[s].hits = << >>
          /\ loc[s].live_calls > 0
          /\ \A j \in DOMAIN loc[s].results : ~IsLive(loc[s].results[j]) )
        => /\ Len(loc[s].resp.data) = 1
           /\ loc[s].resp.data[1] = WebFailed

(***************************************************************************)
(* Network work and the compute capability                                 *)
(***************************************************************************)
\* the request is inside a network call: the community or facts search, the
\* background lookup, the live search (lines 83, 105, 129, 236)
NetworkWait(s) == loc[s].pc \in { "rs_call", "rs_wiki", "fc_call", "qm_web" }

\* C16: a research or get_facts request never enters the embedding /
\* generation capability, and a request that waits on a network call does not
\* stall the others: a line that waits on stdin can be taken up while it waits.
C16_NetworkDoesNotStall ==
    /\ \A s \in Slots : Lookup(s) => ~loc[s].running /\ loc[s].pc \notin ComputePoints
    /\ (\E s \in Slots : NetworkWait(s)) /\ pending > 0 => ENABLED DoReadLine

(***************************************************************************)
(* The windows of the sharded feed                                         *)
(***************************************************************************)
ShardIndex(agent) == SumOrd(agent) % 3

\* the feed shows the opinion of every other agent on the topic
ShownAll(feed, others) ==
    { feed[i].peer : i \in DOMAIN feed } = { others[i].u : i \in DOMAIN others }

\* the feed an agent b would receive in the current graph
FeedOf(b, topic) == get_sharded_context(memory_graph, b, topic).lines

C19_EdgeWeightAndContent ==
    \A i \in DOMAIN memory_graph.edges :
        LET e == memory_graph.edges[i]
        IN  /\ e.weight \in { -1, 0, 1 }
            /\ Len(e.content) <= 120
            /\ << e.u, e.v >> \in DOMAIN opinion_log
            /\ \E j \in DOMAIN opinion_log[<< e.u, e.v >>] :
                  LET text == opinion_log[<< e.u, e.v >>][j]
                  IN  /\ Len(e.content) = (IF Len(text) > 120 THEN 120 ELSE Len(text))
                      /\ \A c \in DOMAIN e.content : e.content[c] = text[c]

\* an edge made from a text of more than 120 characters: it holds 120 of them,
\* and the weight -1 of the keyword that lies behind the cut
C19_Witness ==
    \E i \in DOMAIN memory_graph.edges :
        LET e == memory_graph.edges[i]
        IN  /\ << e.u, e.v >> \in DOMAIN opinion_log
            /\ Len(LatestText(<< e.u, e.v >>)) > 120
            /\ Len(e.content) = 120
            /\ e.weight = -1
            /\ ~Contains(<< "h", "a", "t", "e" >>, e.content)

(***************************************************************************)
(* Start-up                                                                *)
(***************************************************************************)
\* C20: when the initialisation fails the worker prints the error status and
\* ends: it reads no line and answers none, whatever waits on stdin; a line is
\* read or handled only after the ready status was printed.
C20_NoRequestBeforeReady ==
    /\ phase = "startup_failed"
       => /\ boot = << "loading_models", "error" >>
          /\ nread = 0
          /\ \A s \in Slots : loc[s] = Blank
          /\ ~ENABLED Next
    /\ (nread > 0 \/ \E s \in Slots : loc[s] # Blank)
       => \E i \in DOMAIN boot : boot[i] = "ready"

\* the initialisation failed while lines wait on stdin
C20_Witness ==
    /\ phase = "startup_failed"
    /\ pending > 0
    /\ boot[Len(boot)] = "error"

(***************************************************************************)
(* The fragments of the scalability test (specification SpecShard)         *)
(***************************************************************************)
\* the fragment of a context lies at the positions lo+1 .. hi of the list
LiesAt(c, all_voices, lo, hi) ==
    /\ Len(c.knowledge_fragment) = hi - lo
    /\ \A k \in 1..(hi - lo) : c.knowledge_fragment[k] = all_voices[lo + k]

\* C21: for any list of n voices there are two cuts p <= q such that every
\* agent with agent_id mod 3 = 0 reads the positions 1..p, with 1 the positions
\* p+1..q and with 2 the positions q+1..n: the three fragments are contiguous,
\* share no position and make up the whole list in order; each is non-empty
\* when n >= 3; agent 1 and agent 6 read different positions; every agent
\* receives the facts as they were passed.
C21_FragmentsPartition ==
    LET all_voices == loc[1].voices
        n          == Len(all_voices)
        contexts   == loc[1].results
    IN  loc[1].task = "scalability"
        => \E p, q \in 0..n :
              /\ p <= q
              /\ n >= 3 => 0 < p /\ p < q /\ q < n
              /\ \A j \in DOMAIN contexts :
                    LET c == contexts[j]
                    IN  /\ c.agent_id = j
                        /\ c.facts = loc[1].facts
                        /\ CASE j % 3 = 0 -> LiesAt(c, all_voices, 0, p)
                              [] j % 3 = 1 -> LiesAt(c, all_voices, p, q)
                              [] OTHER -> LiesAt(c, all_voices, q, n)

\* the run of TEST 2 on its ten voices is over: the agents of the three
\* clusters have read 3, 3 and 4 voices, agent 6 the first voice of the list
\* and agent 1 the fourth
C21_Witness ==
    /\ loc[1].task = "scalability"
    /\ loc[1].voices = MockVoices
    /\ Len(loc[1].results) = TotalAgents
    /\ Len(loc[1].results[6].knowledge_fragment) = 3
    /\ Len(loc[1].results[1].knowledge_fragment) = 3
    /\ Len(loc[1].results[2].knowledge_fragment) = 4
    /\ loc[1].results[6].knowledge_fragment[1] = MockVoices[1]
    /\ loc[1].results[1].knowledge_fragment[1] = MockVoices[4]

(***************************************************************************)
(* One answer per line                                                     *)
(***************************************************************************)
\* C22: the handling of every line that is not blank ends with one response
\* line of status success or error, whatever its task, also a task that is
\* missing or unknown; and a line is read only when the handling of every
\* earlier line is over.
C22_EveryLineAnswered ==
    /\ \A s \in Slots :
          loc[s].pc = "responded" /\ loc[s].kind # "blank"
          => loc[s].resp.status \in { "success", "error" }
    /\ Cardinality({ s \in Slots : loc[s].pc \notin { "unused", "responded" } }) <= 1

(***************************************************************************)
(* The write-back of the live fallback                                     *)
(***************************************************************************)
\* C23: when the memory bank is loaded and taken as present, the [LIVE WEB]
\* records in the answer of a query_memory request that found nothing in the
\* store are exactly the records the request has added to the store, also
\* when an embedding call of the fallback failed.
C23_ReturnedLiveIsCached ==
    \A s \in Slots :
        Answered(s, "query_memory") /\ TableTruthy /\ loc[s].hits = << >>
        => LET live == SelectSeq(loc[s].resp.data, IsLive)
               rows == db[knowledge_table]
           IN  /\ Len(live) = loc[s].written
               /\ \A j \in DOMAIN live :
                     \E r \in DOMAIN rows :
                         rows[r].text = live[j] /\ rows[r].source = "live_ddg"

(***************************************************************************)
(* The content of a feed                                                   *)
(***************************************************************************)
\* C24: the feed of a generate request never holds the opinion of the agent
\* who asks; it is non-empty exactly when another agent has an edge to the
\* topic, and then it holds one to three opinions of such agents under its
\* header; otherwise the context is empty, without a header.
C24_FeedOfOthersOnly ==
    \A s \in Slots :
        Handling(s, "generate")
        => LET feed   == loc[s].sharded_ctx.lines
               voiced == { memory_graph.edges[i].u : i \in
                             { j \in DOMAIN memory_graph.edges :
                                 /\ memory_graph.edges[j].v = loc[s].topic
                                 /\ memory_graph.edges[j].u # loc[s].agent } }
           IN  /\ \A i \in DOMAIN feed : feed[i].peer # loc[s].agent
               /\ feed # << >> <=> voiced # { }
               /\ feed # << >>
                  => /\ Len(feed) \in 1..3
                     /\ \A i \in DOMAIN feed : feed[i].peer \in voiced
                     /\ loc[s].sharded_ctx.header # ""
               /\ feed = << >> => loc[s].sharded_ctx = NoContext

\* an agent that has given its opinion on the topic asks again, other agents
\* have spoken too: the feed holds opinions, none of them its own
C24_Witness ==
    \E s \in Slots :
        /\ loc[s].task = "generate" /\ loc[s].pc = "g_generate"
        /\ EdgesOf(memory_graph, loc[s].agent, loc[s].topic) # { }
        /\ Len(memory_graph.edges) >= 3
        /\ loc[s].sharded_ctx.lines # << >>
        /\ \A i \in DOMAIN loc[s].sharded_ctx.lines :
              loc[s].sharded_ctx.lines[i].peer # loc[s].agent

(***************************************************************************)
(* The tags of the nodes (specification SpecTags)                          *)
(***************************************************************************)
\* C25: every has_opinion edge goes from a node tagged agent to a node tagged
\* topic, and no step changes the tag a node has, whatever the names of the
\* agents and topics of the requests.
C25_TagsAreStable ==
    [][ /\ \A i \in DOMAIN memory_graph'.edges :
             LET e == memory_graph'.edges[i]
             IN  e.relation = "has_opinion"
                 => /\ memory_graph'.nodes[e.u] = "agent"
                    /\ memory_graph'.nodes[e.v] = "topic"
        /\ \A n \in DOMAIN memory_graph.nodes :
             /\ n \in DOMAIN memory_graph'.nodes
             /\ memory_graph'.nodes[n] = memory_graph.nodes[n] ]_vars
=============================================================================
